---- MODULE Spec2Model ----
(***************************************************************************)
(* Textbook-Mapping-Assistant (src/main.py): the structure-aware chunker,  *)
(* the aggregation functions, the rewrite fallback and the upload / query  *)
(* handlers over the process-wide corpus.                                  *)
(***************************************************************************)
EXTENDS Integers, Sequences, FiniteSets, TLC

VARIABLES
  pages,        \* structured_chunker: the pages argument
  source_file,  \* structured_chunker: the source_file argument
  max_words,    \* structured_chunker: the max_words argument
  overlap,      \* structured_chunker: the overlap argument
  ck,           \* structured_chunker: its locals (pipeline state, buffer, ...)
  cpc,          \* structured_chunker: position in the loops
  call,         \* a call of one of the pure functions: its name and arguments
  ret,          \* that call's outcome: <<>> before it returns, then <<value>>
  chunks,       \* the module's global chunks (with the upload that assigned it)
  index,        \* the module's global index: {} is None, {ix} the index object
  up,           \* the upload_pdf handler: its position and locals
  qs,           \* the query_textbook handlers: position and locals of each
  pool,         \* executor: the queue of submitted tasks and the running ones
  uploads       \* number of upload_pdf calls started so far

chunkVars == <<pages, source_file, max_words, overlap, ck, cpc>>
fnVars == <<call, ret>>
serverVars == <<chunks, index, up, qs, pool, uploads>>
vars == <<pages, source_file, max_words, overlap, ck, cpc, call, ret,
          chunks, index, up, qs, pool, uploads>>

(***************************************************************************)
(* Bounds of the chunker inputs.                                           *)
(***************************************************************************)
MaxItems == 3       \* lines and page breaks of a generated document
MaxMaxWords == 3    \* largest max_words of a generated call
MaxResults == 3     \* longest list of matched chunks given to a pure function
MaxPage == 3        \* largest page number of a generated matched chunk

(***************************************************************************)
(* Python values.  None and a missing dict key are kept apart.             *)
(***************************************************************************)
NONE == "<None>"
ABSENT == "<absent>"

(***************************************************************************)
(* Text.  A line is the sequence of its whitespace-separated words         *)
(* (line.split()); a word is a string, and Chars gives its characters so   *)
(* that the regular expressions are computed, not looked up.               *)
(***************************************************************************)
Chars(w) ==
  CASE w = "UNIT"  -> <<"U", "N", "I", "T">>
    [] w = "unit"  -> <<"u", "n", "i", "t">>
    [] w = "I"     -> <<"I">>
    [] w = "ii"    -> <<"i", "i">>
    [] w = "1.1"   -> <<"1", ".", "1">>
    [] w = "Intro" -> <<"I", "n", "t", "r", "o">>
    [] w = "Hello" -> <<"H", "e", "l", "l", "o">>
    [] w = "world" -> <<"w", "o", "r", "l", "d">>
    [] w = "this"  -> <<"t", "h", "i", "s">>
    [] w = "is"    -> <<"i", "s">>
    [] w = "page"  -> <<"p", "a", "g", "e">>
    [] w = "one"   -> <<"o", "n", "e">>
    [] w = "Basics" -> <<"B", "a", "s", "i", "c", "s">>
    [] w = "bad.pdf"   -> <<"b", "a", "d", ".", "p", "d", "f">>
    [] w = "blank.pdf" -> <<"b", "l", "a", "n", "k", ".", "p", "d", "f">>
    [] w = "one.pdf"   -> <<"o", "n", "e", ".", "p", "d", "f">>
    [] w = "two.pdf"   -> <<"t", "w", "o", ".", "p", "d", "f">>
    [] w = "doc.pdf"   -> <<"d", "o", "c", ".", "p", "d", "f">>
    [] w = "Two.pdf"   -> <<"T", "w", "o", ".", "p", "d", "f">>
    [] OTHER       -> <<>>

\* str.upper() on one character (the letters of the vocabulary)
UpperChar(c) ==
  CASE c = "u" -> "U" [] c = "n" -> "N" [] c = "i" -> "I" [] c = "t" -> "T"
    [] c = "r" -> "R" [] c = "o" -> "O" [] c = "e" -> "E" [] c = "l" -> "L"
    [] c = "w" -> "W" [] c = "d" -> "D" [] c = "h" -> "H" [] c = "s" -> "S"
    [] c = "p" -> "P" [] c = "a" -> "A" [] c = "g" -> "G"
    [] OTHER -> c

RECURSIVE ConcatChars(_)
ConcatChars(cs) ==
  IF cs = <<>> THEN "" ELSE Head(cs) \o ConcatChars(Tail(cs))

\* ' '.join(words)
RECURSIVE JoinWords(_)
JoinWords(ws) ==
  IF ws = <<>> THEN ""
  ELSE IF Len(ws) = 1 THEN Head(ws)
  ELSE Head(ws) \o " " \o JoinWords(Tail(ws))

(***************************************************************************)
(* Detectors (regular expressions over the stripped line).                 *)
(***************************************************************************)
UpperWord(cs) == [i \in 1..Len(cs) |-> UpperChar(cs[i])]

RomanChars == {"I", "V", "X", "L", "C"}
Digits == {"0", "1", "2", "3", "4", "5", "6", "7", "8", "9"}

\* the longest prefix matched by [IVXLC]+ under re.IGNORECASE
RECURSIVE RomanPrefix(_)
RomanPrefix(cs) ==
  IF cs # <<>> /\ UpperChar(Head(cs)) \in RomanChars
  THEN <<Head(cs)>> \o RomanPrefix(Tail(cs))
  ELSE <<>>

\* ^(UNIT|CHAPTER)\s+([IVXLC]+) with re.IGNORECASE; group(2).upper()
UnitDetector(line) ==
  IF /\ Len(line) >= 2
     /\ UpperWord(Chars(line[1])) \in
          {<<"U", "N", "I", "T">>, <<"C", "H", "A", "P", "T", "E", "R">>}
     /\ RomanPrefix(Chars(line[2])) # <<>>
  THEN [match |-> TRUE,
        unit |-> ConcatChars(UpperWord(RomanPrefix(Chars(line[2]))))]
  ELSE [match |-> FALSE, unit |-> NONE]

\* \d+(\.\d+)* matching a whole word
IsSectionNumber(cs) ==
  /\ cs # <<>>
  /\ \A i \in 1..Len(cs) : cs[i] \in Digits \cup {"."}
  /\ cs[1] \in Digits
  /\ cs[Len(cs)] \in Digits
  /\ \A i \in 1..(Len(cs) - 1) : ~(cs[i] = "." /\ cs[i + 1] = ".")

\* ^(\d+(\.\d+)*)\s+(.*) : the line is stripped, so \s+ needs a second word
NumberedSectionDetector(line) ==
  IF Len(line) >= 2 /\ IsSectionNumber(Chars(line[1]))
  THEN [match |-> TRUE, section |-> line[1],
        section_title |-> JoinWords(Tail(line))]
  ELSE [match |-> FALSE, section |-> NONE, section_title |-> NONE]

\* StructurePipeline.__init__: the state of a new pipeline
NewPipelineState == [unit |-> NONE, section |-> NONE, section_title |-> NONE]

\* StructurePipeline.process_line with detectors [UnitDetector, NumberedSectionDetector]
process_line(state, line) ==
  LET u == UnitDetector(line)
      n == NumberedSectionDetector(line)
      s1 == IF u.match THEN [state EXCEPT !.unit = u.unit] ELSE state
      s2 == IF n.match
            THEN [s1 EXCEPT !.section = n.section,
                            !.section_title = n.section_title]
            ELSE s1
  IN [updated |-> u.match \/ n.match, state |-> s2]

(***************************************************************************)
(* structured_chunker.  The buffer holds word occurrences: the word and    *)
(* where it stands in the input (page index, line index, position).  A     *)
(* chunk keeps, beside text and metadata, the occurrences it was built     *)
(* from (words) and the flush that emitted it (by: "hard", "size" or       *)
(* "page"); the program stores neither, the properties read both.  So is   *)
(* commits, the number of structural transitions committed so far, which   *)
(* a chunk records as seg, and st, the pipeline state in force when a word  *)
(* was buffered.                                                           *)
(***************************************************************************)
NoStructure == <<>>       \* last_structure = None
EmptyMetadata ==          \* current_metadata = {}
  [unit |-> ABSENT, section |-> ABSENT, section_title |-> ABSENT]

NewChunker ==
  [state |-> NewPipelineState, chunks |-> <<>>, buffer |-> <<>>,
   current_metadata |-> EmptyMetadata, last_structure |-> NoStructure,
   pi |-> 1, li |-> 1, commits |-> 0]

WordsOf(buffer) == [i \in 1..Len(buffer) |-> buffer[i].w]

\* variant with a plausible bug: buffer[:n], the first n words are kept instead of the last
FirstWords(buffer, n) ==
  IF Len(buffer) <= n THEN buffer ELSE SubSeq(buffer, 1, n)

\* buffer[-n:] for n > 0
LastWords(buffer, n) ==
  IF Len(buffer) <= n THEN buffer
  ELSE SubSeq(buffer, Len(buffer) - n + 1, Len(buffer))

\* variant with a plausible bug: the forced reset is ignored, a structural flush keeps the overlap
RetainedNoForce(buffer, force_reset, ov) ==
  IF ov = 0 THEN <<>> ELSE LastWords(buffer, ov)

\* lines 194-195: what flush leaves in the buffer
Retained(buffer, force_reset, ov) ==
  IF force_reset \/ ov = 0 THEN <<>> ELSE LastWords(buffer, ov)

\* lines 183-192: the chunk flush appends (split() words hold no whitespace,
\* so the join needs no further strip)
MakeChunk(buffer, page_number, source, metadata, why, seg) ==
  [text |-> JoinWords(WordsOf(buffer)),
   metadata |-> [page |-> page_number, source |-> source,
                 unit |-> metadata.unit, section |-> metadata.section,
                 section_title |-> metadata.section_title],
   words |-> buffer, by |-> why, seg |-> seg]

flush(c, page_number, force_reset, source, ov, why) ==
  IF c.buffer = <<>> THEN c
  ELSE [c EXCEPT
          !.chunks = Append(@, MakeChunk(c.buffer, page_number, source,
                                         c.current_metadata, why, c.commits)),
          !.buffer = Retained(c.buffer, force_reset, ov)]

\* variant with a plausible bug: the new metadata is committed before the flush
StructureCommitFirst(c, line, page_number, source, ov) ==
  LET r == process_line(c.state, line)
      new_structure == <<r.state.unit, r.state.section, r.state.section_title>>
      c1 == [c EXCEPT !.state = r.state]
  IN IF r.updated /\ new_structure # c.last_structure
     THEN [flush([c1 EXCEPT !.current_metadata = r.state],
                 page_number, TRUE, source, ov, "hard") EXCEPT
             !.current_metadata = r.state,
             !.last_structure = new_structure,
             !.commits = @ + 1]
     ELSE c1

\* variant with a plausible bug: every detected heading flushes, the signature is not compared
StructureOnAnyDetection(c, line, page_number, source, ov) ==
  LET r == process_line(c.state, line)
      new_structure == <<r.state.unit, r.state.section, r.state.section_title>>
      c1 == [c EXCEPT !.state = r.state]
  IN IF r.updated
     THEN [flush(c1, page_number, TRUE, source, ov, "hard") EXCEPT
             !.current_metadata = r.state,
             !.last_structure = new_structure,
             !.commits = @ + 1]
     ELSE c1

\* lines 204-218: run the pipeline on the line, flush hard on a new signature
Structure(c, line, page_number, source, ov) ==
  LET r == process_line(c.state, line)
      new_structure == <<r.state.unit, r.state.section, r.state.section_title>>
      c1 == [c EXCEPT !.state = r.state]
  IN IF r.updated /\ new_structure # c.last_structure
     THEN [flush(c1, page_number, TRUE, source, ov, "hard") EXCEPT
             !.current_metadata = r.state,
             !.last_structure = new_structure,
             !.commits = @ + 1]
     ELSE c1

\* line 220: buffer.extend(line.split())
Extend(c, line) ==
  [c EXCEPT !.buffer =
     @ \o [k \in 1..Len(line) |->
             [w |-> line[k], at |-> <<c.pi, c.li, k>>, st |-> c.state]]]

\* line 222: if len(buffer) >= max_words: flush(page_number)
SizeFlush(c, page_number, source, mw, ov) ==
  IF Len(c.buffer) >= mw
  THEN flush(c, page_number, FALSE, source, ov, "size")
  ELSE c

(***************************************************************************)
(* Initial values of the parts a specification leaves alone.               *)
(***************************************************************************)
MaxUploads == 2          \* upload_pdf calls started in one run
Queries == {1}           \* the threads that run query_textbook
Uploaders == {1}         \* the threads that run upload_pdf

NoResult == [kind |-> "none"]
NoCorpus == [chunks |-> [of |-> 0, list |-> <<>>], index |-> {}]

IdleUpload ==
  [pc |-> "idle", batch |-> <<>>, fi |-> 0, all_chunks |-> <<>>,
   embeddings |-> <<>>, id |-> 0, pre |-> NoCorpus, ok |-> FALSE,
   result |-> NoResult]

IdleQuery ==
  [pc |-> "idle", top_k |-> 0, polish |-> FALSE, ids |-> <<>>, pos |-> 0,
   results |-> <<>>, idx_of |-> 0, idx_full |-> FALSE, read_of |-> {},
   after_ok |-> FALSE, raw_answer |-> "", future |-> [state |-> "none"], result |-> NoResult]

\* line 327, 330, 332: an idle pool, chunks = [], index = None; no request yet
ServerStart ==
  /\ chunks = [of |-> 0, list |-> <<>>]
  /\ index = {}
  /\ up = [u \in Uploaders |-> IdleUpload]
  /\ qs = [q \in Queries |-> IdleQuery]
  /\ pool = [queue |-> <<>>, running |-> {}]
  /\ uploads = 0

NoCall == call = [op |-> "none"] /\ ret = <<>>

NoChunker ==
  /\ pages = <<>> /\ source_file = "" /\ max_words = 1 /\ overlap = 0
  /\ ck = NewChunker /\ cpc = "done"

(***************************************************************************)
(* The chunker as a state machine: one step per loop position.             *)
(***************************************************************************)
PageBreak == <<"\f">>     \* generated documents: the end of a page

\* the lines a generated document is made of (<<>> is a blank line)
LineSet ==
  {<<"unit", "ii">>, <<"1.1", "Intro">>, <<"Hello", "world">>, <<"one">>, <<>>}

RECURSIVE SeqsUpTo(_, _)
SeqsUpTo(S, n) ==
  IF n = 0 THEN {<<>>}
  ELSE LET shorter == SeqsUpTo(S, n - 1)
       IN shorter \cup {Append(q, x) : q \in {r \in shorter : Len(r) = n - 1}, x \in S}

\* load_pdf_pages: pages numbered from 1 (text kept as its lines)
RECURSIVE PagesOf(_, _, _)
PagesOf(items, done, cur) ==
  IF items = <<>>
  THEN Append(done, [page_number |-> Len(done) + 1, lines |-> cur])
  ELSE IF Head(items) = PageBreak
       THEN PagesOf(Tail(items),
                    Append(done, [page_number |-> Len(done) + 1, lines |-> cur]),
                    <<>>)
       ELSE PagesOf(Tail(items), done, Append(cur, Head(items)))

\* section 8 of the specification: the worked example
WorkedPages ==
  <<[page_number |-> 1,
     lines |-> << <<"UNIT", "I">>, <<"1.1", "Intro">>,
                  <<"Hello", "world", "this", "is", "page", "one">> >>]>>

InitChunk ==
  /\ \/ /\ \E items \in SeqsUpTo(LineSet \cup {PageBreak}, MaxItems) :
             pages = PagesOf(items, <<>>, <<>>)
        /\ max_words \in 1..MaxMaxWords
        /\ overlap \in 0..MaxMaxWords
     \/ /\ pages = WorkedPages
        /\ max_words = 5
        /\ overlap = 2
  /\ source_file = "doc.pdf"
  /\ ck = NewChunker
  /\ cpc = "line"
  /\ NoCall
  /\ ServerStart

CurPage == pages[ck.pi]
CurLine == CurPage.lines[ck.li]

\* line 202: a blank line is skipped
SkipLine ==
  /\ cpc = "line" /\ ck.pi <= Len(pages) /\ ck.li <= Len(CurPage.lines)
  /\ CurLine = <<>>
  /\ ck' = [ck EXCEPT !.li = @ + 1]
  /\ UNCHANGED <<pages, source_file, max_words, overlap, cpc, call, ret,
               chunks, index, up, qs, pool, uploads>>

\* lines 204-218
DetectLine ==
  /\ cpc = "line" /\ ck.pi <= Len(pages) /\ ck.li <= Len(CurPage.lines)
  /\ CurLine # <<>>
  /\ ck' = Structure(ck, CurLine, CurPage.page_number, source_file, overlap)
  /\ cpc' = "extend"
  /\ UNCHANGED <<pages, source_file, max_words, overlap, call, ret,
               chunks, index, up, qs, pool, uploads>>

\* lines 220-222
ExtendLine ==
  /\ cpc = "extend"
  /\ ck' = [SizeFlush(Extend(ck, CurLine), CurPage.page_number, source_file,
                      max_words, overlap) EXCEPT !.li = @ + 1]
  /\ cpc' = "line"
  /\ UNCHANGED <<pages, source_file, max_words, overlap, call, ret,
               chunks, index, up, qs, pool, uploads>>

\* variant with a plausible bug: no flush after the last line of a page
EndOfPageNoFlush ==
  /\ cpc = "line" /\ ck.pi <= Len(pages) /\ ck.li > Len(CurPage.lines)
  /\ ck' = [ck EXCEPT !.pi = @ + 1, !.li = 1]
  /\ UNCHANGED <<pages, source_file, max_words, overlap, cpc, call, ret,
               chunks, index, up, qs, pool, uploads>>

\* line 224: flush(page_number) after the last line of the page
EndOfPage ==
  /\ cpc = "line" /\ ck.pi <= Len(pages) /\ ck.li > Len(CurPage.lines)
  /\ ck' = [flush(ck, CurPage.page_number, FALSE, source_file, overlap, "page")
              EXCEPT !.pi = @ + 1, !.li = 1]
  /\ UNCHANGED <<pages, source_file, max_words, overlap, cpc, call, ret,
               chunks, index, up, qs, pool, uploads>>

\* line 226: return chunks
ChunkReturn ==
  /\ cpc = "line" /\ ck.pi > Len(pages)
  /\ cpc' = "done"
  /\ UNCHANGED <<pages, source_file, max_words, overlap, ck, call, ret,
               chunks, index, up, qs, pool, uploads>>

NextChunk == SkipLine \/ DetectLine \/ ExtendLine \/ EndOfPage \/ ChunkReturn

SpecChunk == InitChunk /\ [][NextChunk]_vars

\* lines 197-226: the whole function, from the locals c onwards
RECURSIVE RunChunker(_, _, _, _, _)
RunChunker(c, pgs, source, mw, ov) ==
  IF c.pi > Len(pgs) THEN c.chunks
  ELSE LET page == pgs[c.pi]
       IN IF c.li > Len(page.lines)
          THEN RunChunker([flush(c, page.page_number, FALSE, source, ov, "page")
                             EXCEPT !.pi = @ + 1, !.li = 1],
                          pgs, source, mw, ov)
          ELSE LET line == page.lines[c.li]
               IN IF line = <<>>
                  THEN RunChunker([c EXCEPT !.li = @ + 1], pgs, source, mw, ov)
                  ELSE RunChunker(
                         [SizeFlush(Extend(Structure(c, line, page.page_number,
                                                     source, ov), line),
                                    page.page_number, source, mw, ov)
                            EXCEPT !.li = @ + 1],
                         pgs, source, mw, ov)

structured_chunker(pgs, source, mw, ov) ==
  RunChunker(NewChunker, pgs, source, mw, ov)

(***************************************************************************)
(* Aggregator and answer synthesis.  An optional page number is a set: {}  *)
(* is None, {n} is n.                                                      *)
(***************************************************************************)
\* Python truthiness of metadata.get(key): a missing key, None and '' are falsy
Truthy(v) == v \notin {ABSENT, NONE, ""}

SetMin(S) == CHOOSE m \in S : \A x \in S : m <= x
SetMax(S) == CHOOSE m \in S : \A x \in S : x <= m

\* variant with a plausible bug: the pages of the first and the last chunk, unsorted
aggregate_pages_unsorted(results) ==
  IF results = <<>> THEN <<{}, {}>>
  ELSE <<{results[1].metadata.page}, {results[Len(results)].metadata.page}>>

aggregate_pages(results) ==
  IF results = <<>> THEN <<{}, {}>>
  ELSE LET ps == {results[i].metadata.page : i \in 1..Len(results)}
       IN <<{SetMin(ps)}, {SetMax(ps)}>>

\* variant with a plausible bug: every title that is not None is collected, the empty one too
SectionTitlesNotNone(results) ==
  {results[i].metadata.section_title : i \in 1..Len(results)} \ {ABSENT, NONE}

\* lines 251-255: the set of truthy section titles
SectionTitles(results) ==
  {results[i].metadata.section_title :
     i \in {j \in 1..Len(results) : Truthy(results[j].metadata.section_title)}}

extract_section(results) ==
  LET sections == SectionTitles(results)
  IN IF Cardinality(sections) = 1 THEN CHOOSE t \in sections : TRUE ELSE NONE

\* f'{start}' for an int or None
Fmt(o) == IF o = {} THEN "None" ELSE ToString(CHOOSE n \in o : TRUE)

build_response(results) ==
  LET range == aggregate_pages(results)
      section == extract_section(results)
  IN IF Truthy(section)
     THEN "The topic '" \o section \o "' is discussed on pages "
            \o Fmt(range[1]) \o "-" \o Fmt(range[2]) \o " of the textbook."
     ELSE "Relevant content for this question can be found on pages "
            \o Fmt(range[1]) \o "-" \o Fmt(range[2]) \o " of the textbook."

\* ord(c) for the characters of the source names
Code(c) ==
  CASE c = "." -> 46 [] c = "a" -> 97 [] c = "b" -> 98 [] c = "c" -> 99
    [] c = "d" -> 100 [] c = "e" -> 101 [] c = "f" -> 102 [] c = "k" -> 107
    [] c = "l" -> 108 [] c = "n" -> 110 [] c = "o" -> 111 [] c = "p" -> 112
    [] c = "t" -> 116 [] c = "w" -> 119 [] c = "T" -> 84
    [] OTHER -> 0

\* str.__lt__: lexicographic order by code point
RECURSIVE LexLess(_, _)
LexLess(a, b) ==
  IF b = <<>> THEN FALSE
  ELSE IF a = <<>> THEN TRUE
  ELSE IF Code(Head(a)) # Code(Head(b)) THEN Code(Head(a)) < Code(Head(b))
  ELSE LexLess(Tail(a), Tail(b))

\* sorted(S) for a set of strings
RECURSIVE Sorted(_)
Sorted(S) ==
  IF S = {} THEN <<>>
  ELSE LET m == CHOOSE x \in S :
                  \A y \in S \ {x} : LexLess(Chars(x), Chars(y))
       IN <<m>> \o Sorted(S \ {m})

\* variant with a plausible bug: duplicates removed, the order of first appearance kept
RECURSIVE extract_sources_unsorted(_)
extract_sources_unsorted(results) ==
  IF results = <<>> THEN <<>>
  ELSE LET n == Len(results)
           before == extract_sources_unsorted(SubSeq(results, 1, n - 1))
           s == results[n].metadata.source
       IN IF Truthy(s) /\ \A k \in 1..Len(before) : before[k] # s
          THEN Append(before, s)
          ELSE before

extract_sources(results) ==
  Sorted({results[i].metadata.source :
            i \in {j \in 1..Len(results) : Truthy(results[j].metadata.source)}})

(***************************************************************************)
(* polish_sentence.  The rewrite process ends in one of four ways; its     *)
(* output is a sequence of pieces of text, whitespace pieces among them.   *)
(***************************************************************************)
Whitespace == {" ", "\n"}

\* str.strip() on the pieces of the output
RECURSIVE StripLeft(_)
StripLeft(ps) ==
  IF ps # <<>> /\ Head(ps) \in Whitespace THEN StripLeft(Tail(ps)) ELSE ps

RECURSIVE StripRight(_)
StripRight(ps) ==
  IF ps # <<>> /\ ps[Len(ps)] \in Whitespace
  THEN StripRight(SubSeq(ps, 1, Len(ps) - 1))
  ELSE ps

Strip(ps) == ConcatChars(StripRight(StripLeft(ps)))

\* subprocess.run(['ollama', ...], timeout=30): an exception or a completed process
subprocess_run(outcome) ==
  CASE outcome.kind = "absent" ->
         [exc |-> "FileNotFoundError", returncode |-> 0, stdout |-> <<>>]
    [] outcome.kind = "timeout" ->
         [exc |-> "TimeoutExpired", returncode |-> 0, stdout |-> <<>>]
    [] outcome.kind = "nonzero" ->
         [exc |-> NONE, returncode |-> 1, stdout |-> outcome.stdout]
    [] outcome.kind = "success" ->
         [exc |-> NONE, returncode |-> 0, stdout |-> outcome.stdout]

\* variant with a plausible bug: the timeout is not caught
CaughtMissingOnly == {"FileNotFoundError"}

\* line 304: except (FileNotFoundError, subprocess.TimeoutExpired)
Caught == {"FileNotFoundError", "TimeoutExpired"}

polish_sentence(raw_text, outcome) ==
  LET result == subprocess_run(outcome)
  IN IF result.exc # NONE
     THEN IF result.exc \in Caught
          THEN [raised |-> FALSE, value |-> raw_text]
          ELSE [raised |-> TRUE, value |-> result.exc]
     ELSE IF result.returncode # 0
          THEN [raised |-> FALSE, value |-> raw_text]
          ELSE [raised |-> FALSE, value |-> Strip(result.stdout)]


(***************************************************************************)
(* Properties of the chunker.                                              *)
(***************************************************************************)
Signature(c) == <<c.metadata.unit, c.metadata.section, c.metadata.section_title>>
Occurrences(c) == {c.words[k].at : k \in 1..Len(c.words)}
Soft(c) == c.by \in {"size", "page"}
ChunkIdx == 1..Len(ck.chunks)

\* C1 (as claimed): with 0 <= overlap < max_words, every chunk emitted by a
\* size-triggered or end-of-page flush holds at most max_words words.
C1_SizeBound ==
  overlap < max_words =>
    \A i \in ChunkIdx :
      Soft(ck.chunks[i]) => Len(ck.chunks[i].words) <= max_words

\* C4: two chunks with different structural signatures share no word
\* occurrence, and the buffer is empty right after a structural transition
\* is committed, whatever the overlap.
C4_HardBoundaryIsolation ==
  /\ [](\A i, j \in ChunkIdx :
          Signature(ck.chunks[i]) # Signature(ck.chunks[j]) =>
            Occurrences(ck.chunks[i]) \cap Occurrences(ck.chunks[j]) = {})
  /\ [][ck'.commits # ck.commits => ck'.buffer = <<>>]_vars

\* C4 witness: a structural flush with overlap > 0 emitted a chunk, and a
\* later chunk carries another signature.
C4_Witness ==
  /\ overlap > 0
  /\ \E i, j \in ChunkIdx :
       /\ i < j
       /\ ck.chunks[i].by = "hard"
       /\ Len(ck.chunks[i].words) >= overlap
       /\ Signature(ck.chunks[i]) # Signature(ck.chunks[j])

\* C5: for overlap = k > 0, two consecutive chunks from soft flushes with no
\* structural transition between them, the earlier of at least k words:
\* the first k words of the later are the last k words of the earlier.
\* For overlap = 0, consecutive chunks share no word occurrence.
C5_OverlapContinuity ==
  \A i \in ChunkIdx : i < Len(ck.chunks) =>
    LET a == ck.chunks[i]
        b == ck.chunks[i + 1]
    IN /\ (overlap > 0 /\ Soft(a) /\ Soft(b) /\ a.seg = b.seg
             /\ Len(a.words) >= overlap)
          => /\ Len(b.words) >= overlap
             /\ SubSeq(b.words, 1, overlap) =
                  SubSeq(a.words, Len(a.words) - overlap + 1, Len(a.words))
       /\ overlap = 0 => Occurrences(a) \cap Occurrences(b) = {}

\* C5 witness: overlap carried from a chunk longer than the overlap into a
\* later chunk that also holds new words.
C5_Witness ==
  /\ overlap > 0
  /\ \E i \in ChunkIdx :
       /\ i < Len(ck.chunks)
       /\ Soft(ck.chunks[i]) /\ Soft(ck.chunks[i + 1])
       /\ ck.chunks[i].seg = ck.chunks[i + 1].seg
       /\ Len(ck.chunks[i].words) > overlap
       /\ Len(ck.chunks[i + 1].words) > overlap

\* C6 (as claimed): in the worked example no heading line emits a chunk, the
\* first chunk is the size-triggered "Hello world this is page" with metadata
\* {page 1, doc.pdf, unit I, section 1.1, section_title Intro}, and the
\* end-of-page flush emits one final chunk with the same metadata.
C6_WorkedExample ==
  (pages = WorkedPages /\ max_words = 5 /\ overlap = 2) =>
    /\ \A i \in ChunkIdx : ck.chunks[i].by # "hard"
    /\ ck.chunks # <<>> =>
         /\ ck.chunks[1].by = "size"
         /\ ck.chunks[1].text = "Hello world this is page"
         /\ ck.chunks[1].metadata =
              [page |-> 1, source |-> "doc.pdf", unit |-> "I",
               section |-> "1.1", section_title |-> "Intro"]
    /\ cpc = "done" =>
         /\ Len(ck.chunks) = 2
         /\ ck.chunks[2].by = "page"
         /\ ck.chunks[2].metadata = ck.chunks[1].metadata

\* a missing metadata key read as None
OrNone(v) == IF v = ABSENT THEN NONE ELSE v

\* C14: the unit, section and section_title of every emitted chunk are those
\* of the pipeline state in force when the chunk's first word was buffered
\* (absent or None before any heading), and a step of the chunker leaves the
\* chunks emitted so far as they are.
C14_MetadataLockedAtFirstWord ==
  /\ [](\A i \in ChunkIdx :
          LET c == ck.chunks[i]
              st == c.words[1].st
          IN /\ OrNone(c.metadata.unit) = st.unit
             /\ OrNone(c.metadata.section) = st.section
             /\ OrNone(c.metadata.section_title) = st.section_title
             /\ st = NewPipelineState =>
                  Signature(c) \in {<<ABSENT, ABSENT, ABSENT>>, <<NONE, NONE, NONE>>})
  /\ [][/\ Len(ck'.chunks) >= Len(ck.chunks)
        /\ \A i \in ChunkIdx : ck'.chunks[i] = ck.chunks[i]]_vars

\* C14 witness: the chunk of unit II was emitted when the heading of section
\* 1.1 was met, and it carries unit II and no section
C14_Witness ==
  /\ ck.state.section = "1.1"
  /\ \E i \in ChunkIdx :
       /\ ck.chunks[i].by = "hard"
       /\ ck.chunks[i].metadata.unit = "II"
       /\ ck.chunks[i].metadata.section = NONE

\* the word occurrences of the input read before line li of page pi
ReadBefore(pi, li) ==
  UNION {UNION {{<<p, l, k>> : k \in 1..Len(pages[p].lines[l])} :
                  l \in {m \in 1..Len(pages[p].lines) : p < pi \/ m < li}} :
           p \in {r \in 1..Len(pages) : r <= pi}}

\* the occurrences of the chunks in output order
RECURSIVE ChunkOccs(_)
ChunkOccs(cs) ==
  IF cs = <<>> THEN <<>>
  ELSE LET c == cs[Len(cs)]
       IN ChunkOccs(SubSeq(cs, 1, Len(cs) - 1))
            \o [k \in 1..Len(c.words) |-> c.words[k].at]

\* a sequence without the repetitions of what it already holds
RECURSIVE WithoutRepeats(_)
WithoutRepeats(sq) ==
  IF sq = <<>> THEN <<>>
  ELSE LET f == WithoutRepeats(SubSeq(sq, 1, Len(sq) - 1))
           x == sq[Len(sq)]
       IN IF \E k \in 1..Len(f) : f[k] = x THEN f ELSE Append(f, x)

\* reading order of two occurrences
Precedes(a, b) ==
  \/ a[1] < b[1]
  \/ a[1] = b[1] /\ a[2] < b[2]
  \/ a[1] = b[1] /\ a[2] = b[2] /\ a[3] < b[3]

\* C15: every word read so far is in a chunk or in the buffer; at the start
\* of a page and when the function returns every word read is in a chunk,
\* and then the chunks read in output order, repeated occurrences dropped,
\* are the input words in reading order.
C15_NoContentLost ==
  LET emitted == UNION {Occurrences(ck.chunks[i]) : i \in ChunkIdx}
      buffered == {ck.buffer[k].at : k \in 1..Len(ck.buffer)}
      read == ReadBefore(ck.pi, ck.li)
      out == WithoutRepeats(ChunkOccs(ck.chunks))
  IN /\ read \subseteq emitted \cup buffered
     /\ (cpc = "line" /\ ck.li = 1) => read \subseteq emitted
     /\ cpc = "done" =>
          /\ emitted = ReadBefore(Len(pages) + 1, 1)
          /\ \A k \in 1..(Len(out) - 1) : Precedes(out[k], out[k + 1])

\* C15 witness: the function returned for two pages, words of the first page
\* were still buffered at its end, and overlap words are repeated in the
\* chunks
C15_Witness ==
  /\ cpc = "done" /\ Len(pages) >= 2 /\ overlap > 0
  /\ \E i \in ChunkIdx : ck.chunks[i].by = "page" /\ ck.chunks[i].metadata.page = 1
  /\ Len(ChunkOccs(ck.chunks)) > Len(WithoutRepeats(ChunkOccs(ck.chunks)))

\* some detector produced a result for the line
Detected(line) == UnitDetector(line).match \/ NumberedSectionDetector(line).match

\* the signature of the committed metadata
Committed(c) ==
  <<OrNone(c.current_metadata.unit), OrNone(c.current_metadata.section),
    OrNone(c.current_metadata.section_title)>>

StateSignature(c) == <<c.state.unit, c.state.section, c.state.section_title>>

\* C16: on a line, the buffer is emitted with the committed metadata and
\* emptied and the new metadata committed exactly when a detector produced a
\* result and the resulting signature differs from the committed one;
\* otherwise chunks, buffer and committed metadata stay, and in both cases
\* the words of the line are then appended to the buffer.
C16_HardFlushTrigger ==
  [][/\ (cpc = "line" /\ cpc' = "extend") =>
          IF Detected(CurLine) /\ StateSignature(ck') # Committed(ck)
          THEN /\ ck'.buffer = <<>>
               /\ Committed(ck') = StateSignature(ck')
               /\ ck'.commits = ck.commits + 1
               /\ IF ck.buffer = <<>>
                  THEN ck'.chunks = ck.chunks
                  ELSE /\ Len(ck'.chunks) = Len(ck.chunks) + 1
                       /\ SubSeq(ck'.chunks, 1, Len(ck.chunks)) = ck.chunks
                       /\ LET c == ck'.chunks[Len(ck'.chunks)]
                          IN /\ c.words = ck.buffer
                             /\ c.by = "hard"
                             /\ Signature(c) =
                                  <<ck.current_metadata.unit,
                                    ck.current_metadata.section,
                                    ck.current_metadata.section_title>>
          ELSE /\ ck'.chunks = ck.chunks
               /\ ck'.buffer = ck.buffer
               /\ ck'.current_metadata = ck.current_metadata
               /\ ck'.commits = ck.commits
     /\ (cpc = "extend" /\ cpc' = "line") =>
          LET full == WordsOf(ck.buffer) \o CurLine
          IN \/ ck'.chunks = ck.chunks /\ WordsOf(ck'.buffer) = full
             \/ /\ Len(ck'.chunks) = Len(ck.chunks) + 1
                /\ ck'.chunks[Len(ck'.chunks)].by = "size"
                /\ WordsOf(ck'.chunks[Len(ck'.chunks)].words) = full]_vars

\* C16 witness: the heading "unit ii" met a second time: detected, the
\* signature as committed, nothing emitted and the buffer kept
C16_Witness ==
  /\ cpc = "extend" /\ ck.pi = 1 /\ ck.li = 2
  /\ Detected(CurLine)
  /\ ck.commits = 1
  /\ ck.chunks = <<>>
  /\ ck.buffer # <<>>

\* C19 (as claimed): the page recorded in every emitted chunk is the page of
\* at least one word the chunk holds.
C19_PageProvenance ==
  \A i \in ChunkIdx :
    \E k \in 1..Len(ck.chunks[i].words) :
      pages[ck.chunks[i].words[k].at[1]].page_number = ck.chunks[i].metadata.page

(***************************************************************************)
(* Calls of the pure functions on generated arguments.                     *)
(***************************************************************************)
TitleValues == {ABSENT, NONE, "", "Intro", "Basics"}

\* a matched chunk, as far as extract_section reads it
TitleChunk(title) ==
  [text |-> "one",
   metadata |-> [page |-> 1, source |-> "doc.pdf", unit |-> NONE,
                 section |-> NONE, section_title |-> title]]

PageNumbers == 1..MaxPage

\* a matched chunk, as far as aggregate_pages reads it
PageChunk(p) ==
  [text |-> "one",
   metadata |-> [page |-> p, source |-> "doc.pdf", unit |-> NONE,
                 section |-> NONE, section_title |-> NONE]]

SourceValues == {ABSENT, NONE, "", "one", "one.pdf", "two.pdf", "Two.pdf"}

\* a matched chunk, as far as extract_sources reads it
SourceChunk(src) ==
  [text |-> "one",
   metadata |-> [page |-> 1, source |-> src, unit |-> NONE,
                 section |-> NONE, section_title |-> NONE]]

\* the raw answers build_response gives for no match and for one section
RawTexts ==
  {build_response(<<>>), build_response(<<TitleChunk("Intro")>>)}

\* what the rewrite process may do
Outcomes ==
  {[kind |-> k, stdout |-> <<>>] : k \in {"absent", "timeout"}}
    \cup {[kind |-> k, stdout |-> o] :
            k \in {"nonzero", "success"},
            o \in {<<>>, <<"\n">>, <<"Polished">>,
                   <<" ", "\n", "Polished", " ", "text", "\n">>}}

InitFn ==
  /\ \/ \E rs \in SeqsUpTo({TitleChunk(t) : t \in TitleValues}, MaxResults) :
          call = [op |-> "extract_section", results |-> rs]
     \/ \E x \in RawTexts, o \in Outcomes :
          call = [op |-> "polish_sentence", raw_text |-> x, outcome |-> o]
     \/ \E rs \in SeqsUpTo({PageChunk(p) : p \in PageNumbers}, MaxResults) :
          call = [op |-> "aggregate_pages", results |-> rs]
     \/ \E rs \in SeqsUpTo({SourceChunk(v) : v \in SourceValues}, MaxResults) :
          call = [op |-> "extract_sources", results |-> rs]
  /\ ret = <<>>
  /\ NoChunker
  /\ ServerStart

CallExtractSection ==
  /\ call.op = "extract_section" /\ ret = <<>>
  /\ ret' = <<extract_section(call.results)>>
  /\ UNCHANGED <<call, chunkVars, serverVars>>

CallPolishSentence ==
  /\ call.op = "polish_sentence" /\ ret = <<>>
  /\ ret' = <<polish_sentence(call.raw_text, call.outcome)>>
  /\ UNCHANGED <<call, chunkVars, serverVars>>

CallAggregatePages ==
  /\ call.op = "aggregate_pages" /\ ret = <<>>
  /\ ret' = <<aggregate_pages(call.results)>>
  /\ UNCHANGED <<call, chunkVars, serverVars>>

CallExtractSources ==
  /\ call.op = "extract_sources" /\ ret = <<>>
  /\ ret' = <<extract_sources(call.results)>>
  /\ UNCHANGED <<call, chunkVars, serverVars>>

NextFn ==
  \/ CallExtractSection
  \/ CallPolishSentence
  \/ CallAggregatePages
  \/ CallExtractSources

SpecFn == InitFn /\ [][NextFn]_vars

(***************************************************************************)
(* Properties of the pure functions.                                       *)
(***************************************************************************)
Returned(op) == call.op = op /\ ret # <<>>
TitleAt(i) == call.results[i].metadata.section_title

\* C7 (as claimed): extract_section returns the single element of the set of
\* distinct non-null section titles (the empty title counted) when that set
\* is a singleton, and null otherwise.
C7_SectionAmbiguity ==
  Returned("extract_section") =>
    LET titles == {TitleAt(i) : i \in 1..Len(call.results)} \ {ABSENT, NONE}
    IN IF Cardinality(titles) = 1
       THEN ret[1] \in titles
       ELSE ret[1] = NONE

\* C7 (amended): extract_section returns a title t iff some chunk has the
\* non-null, non-empty title t and every non-null, non-empty title of the
\* input equals t; it returns null otherwise.
C7_SectionAmbiguityNonEmpty ==
  Returned("extract_section") =>
    LET idx == 1..Len(call.results)
        Named(i) == TitleAt(i) # ABSENT /\ TitleAt(i) # NONE /\ TitleAt(i) # ""
        Single(t) == /\ \E i \in idx : TitleAt(i) = t /\ Named(i)
                     /\ \A j \in idx : Named(j) => TitleAt(j) = t
    IN /\ \A t \in TitleValues : Single(t) => ret[1] = t
       /\ (~\E t \in TitleValues : Single(t)) => ret[1] = NONE

\* C7 witness: one named title beside an empty one, and the named one returned
C7_Witness ==
  /\ Returned("extract_section")
  /\ \E i, j \in 1..Len(call.results) : TitleAt(i) = "" /\ TitleAt(j) = "Intro"
  /\ ret[1] = "Intro"

\* C8: polish_sentence never raises; it returns the raw answer when the tool
\* is absent, exits non-zero or times out, and the trimmed output on success.
C8_PolishFallback ==
  Returned("polish_sentence") =>
    LET out == call.outcome.stdout
        n == Len(out)
        Trimmed(v) ==
          \E i, j \in 0..n :
            /\ i + j <= n
            /\ \A k \in 1..i : out[k] \in Whitespace
            /\ \A k \in (n - j + 1)..n : out[k] \in Whitespace
            /\ i + j < n => out[i + 1] \notin Whitespace /\ out[n - j] \notin Whitespace
            /\ v = ConcatChars(SubSeq(out, i + 1, n - j))
    IN /\ ~ret[1].raised
       /\ call.outcome.kind \in {"absent", "nonzero", "timeout"}
            => ret[1].value = call.raw_text
       /\ call.outcome.kind = "success" => Trimmed(ret[1].value)

\* C8 witness: a successful rewrite whose output is returned trimmed
C8_Witness ==
  /\ Returned("polish_sentence")
  /\ call.outcome.kind = "success"
  /\ call.outcome.stdout # <<>> /\ call.outcome.stdout[1] \in Whitespace
  /\ ret[1] = [raised |-> FALSE, value |-> "Polished text"]

PageAt(i) == call.results[i].metadata.page
SourceAt(i) == call.results[i].metadata.source

\* C12: aggregate_pages of the empty list is (None, None); of a non-empty
\* list it is (m, M), m the least and M the greatest page number present,
\* whatever the order and the duplicates.
C12_AggregationNullability ==
  Returned("aggregate_pages") =>
    LET idx == 1..Len(call.results)
    IN IF call.results = <<>>
       THEN ret[1] = <<{}, {}>>
       ELSE \E a, b \in idx :
              /\ ret[1] = <<{PageAt(a)}, {PageAt(b)}>>
              /\ \A i \in idx : PageAt(a) <= PageAt(i) /\ PageAt(i) <= PageAt(b)

\* C12 witness: pages out of order with a duplicate, least and greatest
\* neither first nor last
C12_Witness ==
  /\ Returned("aggregate_pages")
  /\ Len(call.results) = 3
  /\ PageAt(1) = 2 /\ PageAt(2) = 1 /\ PageAt(3) = 2
  /\ ret[1] = <<{1}, {2}>>

\* the permutations of a list of matched chunks
Reorderings(rs) ==
  {[i \in 1..Len(rs) |-> rs[f[i]]] :
     f \in {g \in [1..Len(rs) -> 1..Len(rs)] :
              \A i, j \in 1..Len(rs) : i # j => g[i] # g[j]}}

StrictlyAscending(out) ==
  \A k \in 1..(Len(out) - 1) : LexLess(Chars(out[k]), Chars(out[k + 1]))

\* C13 (as claimed): extract_sources gives the same sequence for every
\* permutation of the list, strictly ascending, holding exactly the distinct
\* non-null source values of the input (the empty string counted).
C13_SourceDeterminism ==
  Returned("extract_sources") =>
    /\ \A p \in Reorderings(call.results) : extract_sources(p) = ret[1]
    /\ StrictlyAscending(ret[1])
    /\ {ret[1][k] : k \in 1..Len(ret[1])} =
         {SourceAt(i) : i \in 1..Len(call.results)} \ {ABSENT, NONE}

\* C13 (amended): the same, the sequence holding exactly the distinct source
\* values that are neither null nor the empty string.
C13_SourceDeterminismNonEmpty ==
  Returned("extract_sources") =>
    /\ \A p \in Reorderings(call.results) : extract_sources(p) = ret[1]
    /\ StrictlyAscending(ret[1])
    /\ {ret[1][k] : k \in 1..Len(ret[1])} =
         {SourceAt(i) : i \in 1..Len(call.results)} \ {ABSENT, NONE, ""}

\* C13 witness: three chunks out of order with an empty source among them,
\* the two named sources returned in ascending order
C13_Witness ==
  /\ Returned("extract_sources")
  /\ Len(call.results) = 3
  /\ SourceAt(1) = "two.pdf" /\ SourceAt(2) = "" /\ SourceAt(3) = "one.pdf"
  /\ ret[1] = <<"one.pdf", "two.pdf">>

(***************************************************************************)
(* The server: upload_pdf and query_textbook run in the framework's        *)
(* threads, one step per access to the globals chunks and index.  chunks   *)
(* carries the number of the upload that assigned it (of), an index the    *)
(* number of the upload that created it: the program stores neither.       *)
(***************************************************************************)
max_workers == 2            \* ThreadPoolExecutor(max_workers=2)
DefaultMaxWords == 350      \* structured_chunker(..., max_words=350, ...)
DefaultOverlap == 50        \* structured_chunker(..., overlap=50)

\* the uploaded files: bad.pdf does not open, blank.pdf holds no text
Corrupt(file) == file = "bad.pdf"

DocPages(file) ==
  CASE file = "one.pdf" ->
         <<[page_number |-> 1, lines |-> << <<"1.1", "Intro">>, <<"one">> >>]>>
    [] file = "two.pdf" ->
         <<[page_number |-> 1, lines |-> << <<"Hello", "world">> >>],
           [page_number |-> 2, lines |-> << <<"unit", "ii">> >>]>>
    [] OTHER -> <<[page_number |-> 1, lines |-> <<>>]>>

\* the batches a client uploads
Batches ==
  {<<"bad.pdf">>, <<"blank.pdf">>, <<"one.pdf">>, <<"two.pdf">>,
   <<"one.pdf", "bad.pdf">>, <<"bad.pdf", "two.pdf">>, <<"two.pdf", "one.pdf">>,
   <<"one.pdf", "one.pdf">>}

TopKs == {1, 2}             \* payload.top_k

\* the rewrite process, as the server meets it
ServerOutcomes ==
  {[kind |-> k, stdout |-> <<" ", "Polished", "\n">>] :
     k \in {"absent", "timeout", "nonzero", "success"}}

ErrFailed(file) ==
  [kind |-> "error", error |-> "Failed to process " \o file \o ": cannot open"]
ErrNoPages == [kind |-> "error", error |-> "No valid PDF pages found."]
ErrNoText == [kind |-> "error", error |-> "No text content found in PDF."]
ErrNoIndex ==
  [kind |-> "error", error |-> "No PDF indexed. Please upload a PDF first."]

\* upload_pdf is called with a batch of files
UStart(u) ==
  /\ up[u].pc \in {"idle", "returned"}
  /\ uploads < MaxUploads
  /\ \E b \in Batches :
       up' = [up EXCEPT ![u] =
                [IdleUpload EXCEPT !.pc = "files", !.batch = b, !.id = uploads + 1,
                                   !.pre = [chunks |-> chunks, index |-> index],
                                   !.ok = up[u].ok]]
  /\ uploads' = uploads + 1
  /\ UNCHANGED <<chunks, index, qs, pool, chunkVars, fnVars>>

\* variant with a plausible bug: a file that fails is skipped and the loop goes on
SkipFailedFile(h, file) == [h EXCEPT !.fi = @ + 1]

\* line 378: except Exception as e: return {'error': ...}
FailOnFile(h, file) ==
  [h EXCEPT !.fi = @ + 1, !.pc = "returned", !.result = ErrFailed(file)]

\* lines 364-378: one iteration of the loop over the files
UFile(u) ==
  /\ up[u].pc = "files" /\ up[u].fi < Len(up[u].batch)
  /\ LET file == up[u].batch[up[u].fi + 1]
     IN up' = [up EXCEPT ![u] =
                 IF Corrupt(file) THEN FailOnFile(@, file)
                 ELSE [@ EXCEPT !.fi = @ + 1,
                                !.all_chunks =
                                   @ \o structured_chunker(DocPages(file), file,
                                          DefaultMaxWords, DefaultOverlap)]]
  /\ UNCHANGED <<chunks, index, qs, pool, uploads, chunkVars, fnVars>>

\* lines 380-382: no chunks is an error; otherwise chunks = all_chunks
UCommit(u) ==
  /\ up[u].pc = "files" /\ up[u].fi = Len(up[u].batch)
  /\ IF up[u].all_chunks = <<>>
     THEN /\ up' = [up EXCEPT ![u].pc = "returned", ![u].result = ErrNoPages]
          /\ UNCHANGED chunks
     ELSE /\ chunks' = [of |-> up[u].id, list |-> up[u].all_chunks]
          /\ up' = [up EXCEPT ![u].pc = "encode"]
  /\ UNCHANGED <<index, qs, pool, uploads, chunkVars, fnVars>>

\* lines 384-391: embed the texts of chunks; a zero-size matrix is an error
UEncode(u) ==
  /\ up[u].pc = "encode"
  /\ LET texts == [i \in 1..Len(chunks.list) |-> chunks.list[i].text]
     IN \E embeddings \in {texts, <<>>} :
          up' = [up EXCEPT ![u] =
                   IF embeddings = <<>>
                   THEN [@ EXCEPT !.pc = "returned", !.result = ErrNoText]
                   ELSE [@ EXCEPT !.pc = "newindex", !.embeddings = embeddings]]
  /\ UNCHANGED <<chunks, index, qs, pool, uploads, chunkVars, fnVars>>

\* line 393: index = faiss.IndexFlatIP(dim), a new and empty index
UNewIndex(u) ==
  /\ up[u].pc = "newindex"
  /\ index' = {[of |-> up[u].id, vecs |-> <<>>]}
  /\ up' = [up EXCEPT ![u].pc = "add"]
  /\ UNCHANGED <<chunks, qs, pool, uploads, chunkVars, fnVars>>

\* line 394: index.add(embeddings), on the index the global names now
UAdd(u) ==
  /\ up[u].pc = "add"
  /\ index' = {[ix EXCEPT !.vecs = @ \o up[u].embeddings] : ix \in index}
  /\ up' = [up EXCEPT ![u].pc = "finish"]
  /\ UNCHANGED <<chunks, qs, pool, uploads, chunkVars, fnVars>>

\* two files of the batch have one name, hence one path in UPLOAD_DIR
SameNameTwice(batch) ==
  \E i, j \in 1..Len(batch) : i < j /\ batch[i] = batch[j]

\* lines 396-404: remove the files, report success; unlink() raises when the
\* path was already removed for an earlier file of the same name
UFinish(u) ==
  /\ up[u].pc = "finish"
  /\ up' = [up EXCEPT ![u] =
              IF SameNameTwice(up[u].batch)
              THEN [@ EXCEPT !.pc = "returned",
                             !.result = [kind |-> "raised",
                                         exception |-> "FileNotFoundError"]]
              ELSE [@ EXCEPT !.pc = "returned", !.ok = TRUE,
                             !.result = [kind |-> "success",
                                         files_indexed |-> up[u].batch,
                                         chunks_created |-> Len(chunks.list)]]]
  /\ UNCHANGED <<chunks, index, qs, pool, uploads, chunkVars, fnVars>>

\* index.search(q_emb, k) on n vectors: the ids of min(n, k) distinct vectors
\* in any order of similarity, then the sentinel -1
SearchIds(n, k) ==
  {ids \in [1..k -> (0..(n - 1)) \cup {-1}] :
     /\ \A i \in 1..k : (ids[i] = -1) <=> (i > n)
     /\ \A i, j \in 1..k : (i # j /\ ids[i] # -1) => ids[i] # ids[j]}

\* lines 441-450: the answer payload
Payload(final_answer, results) ==
  LET range == aggregate_pages(results)
  IN [kind |-> "answer", question |-> "q", answer |-> final_answer,
      page_range |-> Fmt(range[1]) \o "-" \o Fmt(range[2]),
      sources |-> extract_sources(results)]

\* return: the locals are gone, the response stays
Respond(h, response) == [IdleQuery EXCEPT !.pc = "returned", !.result = response]

\* query_textbook is called with a payload
QStart(q) ==
  /\ qs[q].pc \in {"idle", "returned"}
  /\ \E k \in TopKs, polish \in BOOLEAN :
       qs' = [qs EXCEPT ![q] =
                [IdleQuery EXCEPT !.pc = "check", !.top_k = k, !.polish = polish,
                                  !.after_ok = \E u \in DOMAIN up : up[u].ok]]
  /\ UNCHANGED <<chunks, index, up, pool, uploads, chunkVars, fnVars>>

\* line 423, the condition: index is None or not chunks
NotIndexed(ix, cl) == ix = {} \/ cl = <<>>

\* line 423: if index is None or not chunks: return {'error': ...}
QCheck(q) ==
  /\ qs[q].pc = "check"
  /\ qs' = [qs EXCEPT ![q] =
              IF NotIndexed(index, chunks.list)
              THEN Respond(@, ErrNoIndex)
              ELSE [@ EXCEPT !.pc = "search"]]
  /\ UNCHANGED <<chunks, index, up, pool, uploads, chunkVars, fnVars>>

\* lines 425-430: scores, indices = index.search(q_emb, payload.top_k);
\* None has no attribute search
QSearch(q) ==
  /\ qs[q].pc = "search"
  /\ IF index = {}
     THEN qs' = [qs EXCEPT ![q] =
                   Respond(@, [kind |-> "raised", exception |-> "AttributeError"])]
     ELSE \E ix \in index :
            \E ids \in SearchIds(Len(ix.vecs), qs[q].top_k) :
              qs' = [qs EXCEPT ![q] =
                       [@ EXCEPT !.pc = "filter", !.ids = ids, !.pos = 1,
                                 !.idx_of = ix.of, !.idx_full = (ix.vecs # <<>>)]]
  /\ UNCHANGED <<chunks, index, up, pool, uploads, chunkVars, fnVars>>

\* line 432, the condition: 0 <= i < len(chunks)
QTest(q) ==
  /\ qs[q].pc = "filter" /\ qs[q].pos <= Len(qs[q].ids)
  /\ LET i == qs[q].ids[qs[q].pos]
     IN qs' = [qs EXCEPT ![q] =
                 IF 0 <= i
                 THEN IF i < Len(chunks.list)
                      THEN [@ EXCEPT !.pc = "fetch", !.read_of = @ \cup {chunks.of}]
                      ELSE [@ EXCEPT !.pos = @ + 1, !.read_of = @ \cup {chunks.of}]
                 ELSE [@ EXCEPT !.pos = @ + 1]]
  /\ UNCHANGED <<chunks, index, up, pool, uploads, chunkVars, fnVars>>

\* line 432, the element: chunks[i], an IndexError if chunks is shorter by now
QFetch(q) ==
  /\ qs[q].pc = "fetch"
  /\ LET i == qs[q].ids[qs[q].pos]
     IN qs' = [qs EXCEPT ![q] =
                 IF i < Len(chunks.list)
                 THEN [@ EXCEPT !.pc = "filter", !.pos = @ + 1,
                                !.results = Append(@, chunks.list[i + 1]),
                                !.read_of = @ \cup {chunks.of}]
                 ELSE Respond(@, [kind |-> "raised", exception |-> "IndexError"])]
  /\ UNCHANGED <<chunks, index, up, pool, uploads, chunkVars, fnVars>>

\* lines 434-450 without polish; lines 434-437 with it: the task is submitted
QAnswer(q) ==
  /\ qs[q].pc = "filter" /\ qs[q].pos > Len(qs[q].ids)
  /\ LET raw_answer == build_response(qs[q].results)
     IN IF qs[q].polish
        THEN /\ qs' = [qs EXCEPT ![q].pc = "wait", ![q].raw_answer = raw_answer,
                                 ![q].future = [state |-> "queued"]]
             /\ pool' = [pool EXCEPT !.queue = Append(@, q)]
        ELSE /\ qs' = [qs EXCEPT ![q] =
                               Respond(@, Payload(raw_answer, qs[q].results))]
             /\ UNCHANGED pool
  /\ UNCHANGED <<chunks, index, up, uploads, chunkVars, fnVars>>

\* variant with a plausible bug: a task starts at once, however many are running
WorkerTakeUnbounded ==
  /\ pool.queue # <<>>
  /\ pool' = [queue |-> Tail(pool.queue),
              running |-> pool.running \cup {Head(pool.queue)}]
  /\ qs' = [qs EXCEPT ![Head(pool.queue)].future = [state |-> "running"]]
  /\ UNCHANGED <<chunks, index, up, uploads, chunkVars, fnVars>>

\* a free worker of the pool takes the oldest submitted task
WorkerTake ==
  /\ pool.queue # <<>>
  /\ Cardinality(pool.running) < max_workers
  /\ pool' = [queue |-> Tail(pool.queue),
              running |-> pool.running \cup {Head(pool.queue)}]
  /\ qs' = [qs EXCEPT ![Head(pool.queue)].future = [state |-> "running"]]
  /\ UNCHANGED <<chunks, index, up, uploads, chunkVars, fnVars>>

\* variant with a plausible bug: the worker stays taken after its task has ended
WorkerRunKeepsWorker(q) ==
  /\ q \in pool.running
  /\ qs[q].future.state = "running"
  /\ \E o \in ServerOutcomes :
       qs' = [qs EXCEPT ![q].future =
                [state |-> "done",
                 outcome |-> polish_sentence(qs[q].raw_answer, o)]]
  /\ UNCHANGED <<pool, chunks, index, up, uploads, chunkVars, fnVars>>

\* the worker runs polish_sentence(raw_answer) to its end
WorkerRun(q) ==
  /\ q \in pool.running
  /\ \E o \in ServerOutcomes :
       qs' = [qs EXCEPT ![q].future =
                [state |-> "done",
                 outcome |-> polish_sentence(qs[q].raw_answer, o)]]
  /\ pool' = [pool EXCEPT !.running = @ \ {q}]
  /\ UNCHANGED <<chunks, index, up, uploads, chunkVars, fnVars>>

\* lines 438-450: future.result(), then the payload
QWait(q) ==
  /\ qs[q].pc = "wait" /\ qs[q].future.state = "done"
  /\ qs' = [qs EXCEPT ![q] =
              Respond(@, IF qs[q].future.outcome.raised
                         THEN [kind |-> "raised",
                               exception |-> qs[q].future.outcome.value]
                         ELSE Payload(qs[q].future.outcome.value, qs[q].results))]
  /\ UNCHANGED <<chunks, index, up, pool, uploads, chunkVars, fnVars>>

Init == ServerStart /\ NoChunker /\ NoCall

Next ==
  \/ \E u \in DOMAIN up : UStart(u)
  \/ \E u \in DOMAIN up : UFile(u)
  \/ \E u \in DOMAIN up : UCommit(u)
  \/ \E u \in DOMAIN up : UEncode(u)
  \/ \E u \in DOMAIN up : UNewIndex(u)
  \/ \E u \in DOMAIN up : UAdd(u)
  \/ \E u \in DOMAIN up : UFinish(u)
  \/ \E q \in DOMAIN qs : QStart(q)
  \/ \E q \in DOMAIN qs : QCheck(q)
  \/ \E q \in DOMAIN qs : QSearch(q)
  \/ \E q \in DOMAIN qs : QTest(q)
  \/ \E q \in DOMAIN qs : QFetch(q)
  \/ \E q \in DOMAIN qs : QAnswer(q)
  \/ \E q \in DOMAIN qs : QWait(q)
  \/ \E q \in DOMAIN qs : WorkerRun(q)
  \/ WorkerTake

Spec == Init /\ [][Next]_vars

(***************************************************************************)
(* Properties of the server.                                               *)
(***************************************************************************)
Reading(q) == qs[q].pc \in {"filter", "fetch", "wait"}

\* C2 (as claimed): a query uses an index and a chunk list of the same
\* upload, and never a new index that is not filled yet.
C2_AtomicReplacement ==
  \A q \in DOMAIN qs :
    Reading(q) =>
      /\ qs[q].idx_full
      /\ \A g \in qs[q].read_of : g = qs[q].idx_of

EmptyCorpusError(u) ==
  up[u].pc = "returned" /\ up[u].result \in {ErrNoPages, ErrNoText}

\* C3 (as claimed): when upload_pdf returns an empty-corpus error, chunks and
\* index are what they were when the call started.
C3_EmptyCorpusUntouched ==
  \A u \in DOMAIN up :
    EmptyCorpusError(u) =>
      chunks = up[u].pre.chunks /\ index = up[u].pre.index

\* C9: once a document of the batch has failed, the call has returned the
\* error naming it, that document is the last one processed, and chunks and
\* index are what they were when the call started.
C9_FailFastIngest ==
  \A u \in DOMAIN up :
    \A k \in 1..up[u].fi :
      Corrupt(up[u].batch[k]) =>
        /\ up[u].pc = "returned"
        /\ up[u].fi = k
        /\ up[u].result = ErrFailed(up[u].batch[k])
        /\ chunks = up[u].pre.chunks
        /\ index = up[u].pre.index

\* C9 witness: the second document fails after the first was chunked, with
\* a corpus of an earlier upload in place.
C9_Witness ==
  \E u \in DOMAIN up :
    /\ up[u].pc = "returned" /\ up[u].fi = 2
    /\ Corrupt(up[u].batch[2])
    /\ up[u].all_chunks # <<>>
    /\ up[u].result.kind = "error"
    /\ chunks.list # <<>> /\ index # {}

\* C10 (as claimed): whatever ids the search returns, query_textbook ends
\* with an answer payload built from the chunks that passed the filter, never
\* with an error, and with no chunk left the page range is None-None and the
\* sources are empty.
C10_OutOfRangeFiltering ==
  [][\A q \in DOMAIN qs :
       (Reading(q) /\ qs'[q].pc = "returned") =>
         /\ qs'[q].result.kind = "answer"
         /\ qs'[q].result.sources = extract_sources(qs[q].results)
         /\ qs[q].results = <<>> =>
              /\ qs'[q].result.page_range = "None-None"
              /\ qs'[q].result.sources = <<>>]_vars

(***************************************************************************)
(* One client that sends its requests one after the other: a request       *)
(* starts only when no handler is at work.                                 *)
(***************************************************************************)
Busy ==
  \/ \E u \in DOMAIN up : up[u].pc \notin {"idle", "returned"}
  \/ \E q \in DOMAIN qs : qs[q].pc \notin {"idle", "returned"}

SeqUStart(u) == ~Busy /\ UStart(u)
SeqQStart(q) == ~Busy /\ QStart(q)

NextSeq ==
  \/ \E u \in DOMAIN up : SeqUStart(u)
  \/ \E u \in DOMAIN up : UFile(u)
  \/ \E u \in DOMAIN up : UCommit(u)
  \/ \E u \in DOMAIN up : UEncode(u)
  \/ \E u \in DOMAIN up : UNewIndex(u)
  \/ \E u \in DOMAIN up : UAdd(u)
  \/ \E u \in DOMAIN up : UFinish(u)
  \/ \E q \in DOMAIN qs : SeqQStart(q)
  \/ \E q \in DOMAIN qs : QCheck(q)
  \/ \E q \in DOMAIN qs : QSearch(q)
  \/ \E q \in DOMAIN qs : QTest(q)
  \/ \E q \in DOMAIN qs : QFetch(q)
  \/ \E q \in DOMAIN qs : QAnswer(q)
  \/ \E q \in DOMAIN qs : QWait(q)
  \/ \E q \in DOMAIN qs : WorkerRun(q)
  \/ WorkerTake

SpecSeq == Init /\ [][NextSeq]_vars

AnswerFields == {"kind", "question", "answer", "page_range", "sources"}

\* C11 (as claimed): in a sequence of uploads and queries, a query issued
\* before any upload has returned success returns the no-index error, a
\* query issued after one has returns an answer payload (question, answer,
\* page_range, sources), and no step of a query changes chunks or index.
C11_NoIndexError ==
  [][\A q \in DOMAIN qs :
       /\ qs'[q] # qs[q] => (chunks' = chunks /\ index' = index)
       /\ (qs[q].pc \notin {"idle", "returned"} /\ qs'[q].pc = "returned") =>
            IF qs[q].after_ok
            THEN /\ qs'[q].result.kind = "answer"
                 /\ DOMAIN qs'[q].result = AnswerFields
            ELSE qs'[q].result = ErrNoIndex]_vars

(***************************************************************************)
(* Concurrent queries on an indexed corpus: the state a successful upload  *)
(* of one.pdf leaves, and three threads that run query_textbook with       *)
(* polish = true.                                                          *)
(***************************************************************************)
PolishQueries == {1, 2, 3}

\* the handler of upload_pdf after it has returned success for the batch
UploadedBy(batch, list) ==
  [IdleUpload EXCEPT
     !.pc = "returned", !.batch = batch, !.fi = Len(batch), !.all_chunks = list,
     !.embeddings = [i \in 1..Len(list) |-> list[i].text], !.id = 1, !.ok = TRUE,
     !.result = [kind |-> "success", files_indexed |-> batch,
                 chunks_created |-> Len(list)]]

InitPolish ==
  LET list == structured_chunker(DocPages("one.pdf"), "one.pdf",
                                 DefaultMaxWords, DefaultOverlap)
  IN /\ chunks = [of |-> 1, list |-> list]
     /\ index = {[of |-> 1, vecs |-> [i \in 1..Len(list) |-> list[i].text]]}
     /\ up = [u \in Uploaders |-> UploadedBy(<<"one.pdf">>, list)]
     /\ qs = [q \in PolishQueries |-> IdleQuery]
     /\ pool = [queue |-> <<>>, running |-> {}]
     /\ uploads = 1
     /\ NoChunker
     /\ NoCall

\* query_textbook is called with polish = true
QStartPolish(q) == QStart(q) /\ qs'[q].polish

NextPolish ==
  \/ \E q \in DOMAIN qs : QStartPolish(q)
  \/ \E q \in DOMAIN qs : QCheck(q)
  \/ \E q \in DOMAIN qs : QSearch(q)
  \/ \E q \in DOMAIN qs : QTest(q)
  \/ \E q \in DOMAIN qs : QFetch(q)
  \/ \E q \in DOMAIN qs : QAnswer(q)
  \/ \E q \in DOMAIN qs : QWait(q)
  \/ \E q \in DOMAIN qs : WorkerRun(q)
  \/ WorkerTake

SpecPolish == InitPolish /\ [][NextPolish]_vars

\* the threads of the handlers and of the pool are scheduled fairly, and a
\* rewrite process ends or is stopped at its timeout
FairSpecPolish ==
  /\ SpecPolish
  /\ \A q \in PolishQueries :
       /\ WF_vars(QCheck(q)) /\ WF_vars(QSearch(q)) /\ WF_vars(QTest(q))
       /\ WF_vars(QFetch(q)) /\ WF_vars(QAnswer(q)) /\ WF_vars(QWait(q))
       /\ WF_vars(WorkerRun(q))
  /\ WF_vars(WorkerTake)

RunningRewrites == {q \in DOMAIN qs : qs[q].future.state = "running"}
QueuedRewrites == {q \in DOMAIN qs : qs[q].future.state = "queued"}

\* C17: at most 2 calls of polish_sentence run at any moment; a submitted
\* call that is not running stands in the queue of the pool, and it starts
\* only when fewer than 2 are running.
C17_BoundedRewriteConcurrency ==
  /\ [](/\ Cardinality(RunningRewrites) <= 2
        /\ QueuedRewrites = {pool.queue[k] : k \in 1..Len(pool.queue)})
  /\ [][\A q \in DOMAIN qs :
          (q \in QueuedRewrites /\ qs'[q].future.state = "running") =>
            Cardinality(RunningRewrites) < 2]_vars

\* C17 witness: three polish requests at once, two running and one queued
C17_Witness ==
  /\ Cardinality(RunningRewrites) = 2
  /\ Cardinality(QueuedRewrites) = 1

\* C18: with three concurrent handlers on an indexed corpus, every call with
\* polish = true ends with an answer payload, whatever the rewrite
\* processes do, and no query ends with an exception.
C18_PolishedQueriesComplete ==
  /\ \A q \in PolishQueries :
       (qs[q].pc = "check" /\ qs[q].polish) ~>
         (qs[q].pc = "returned" /\ qs[q].result.kind = "answer")
  /\ [](\A q \in DOMAIN qs : qs[q].result.kind # "raised")

\* C18 witness: a rewrite has ended in its fallback (the raw answer is the
\* outcome) while another polish request still waits in the queue
C18_Witness ==
  \E q \in DOMAIN qs :
    /\ qs[q].pc = "wait" /\ qs[q].future.state = "done"
    /\ qs[q].future.outcome.value = qs[q].raw_answer
    /\ QueuedRewrites # {}

(***************************************************************************)
(* Concurrent uploads: two threads that run upload_pdf, no query.          *)
(***************************************************************************)
UploaderPair == {1, 2}

InitUploads ==
  /\ chunks = [of |-> 0, list |-> <<>>]
  /\ index = {}
  /\ up = [u \in UploaderPair |-> IdleUpload]
  /\ qs = [q \in {} |-> IdleQuery]
  /\ pool = [queue |-> <<>>, running |-> {}]
  /\ uploads = 0
  /\ NoChunker
  /\ NoCall

NextUploads ==
  \/ \E u \in DOMAIN up : UStart(u)
  \/ \E u \in DOMAIN up : UFile(u)
  \/ \E u \in DOMAIN up : UCommit(u)
  \/ \E u \in DOMAIN up : UEncode(u)
  \/ \E u \in DOMAIN up : UNewIndex(u)
  \/ \E u \in DOMAIN up : UAdd(u)
  \/ \E u \in DOMAIN up : UFinish(u)

SpecUploads == InitUploads /\ [][NextUploads]_vars

\* C20 (as claimed): when two calls of upload_pdf, one by each thread, have
\* both returned success, the index is the one created by the upload that
\* assigned chunks and holds one vector per chunk, in the order of chunks.
C20_ConsistentAfterIngests ==
  (/\ uploads = Cardinality(DOMAIN up)
   /\ \A u \in DOMAIN up :
        up[u].pc = "returned" /\ up[u].result.kind = "success")
  => \A ix \in index :
       /\ ix.of = chunks.of
       /\ ix.vecs = [i \in 1..Len(chunks.list) |-> chunks.list[i].text]

====
